---- MODULE Spec2Model ----
(***************************************************************************)
(* The services of backend/services/analysis/ as a state machine:          *)
(* StructuredResponseGenerator (response_generator.py), ConflictDetector   *)
(* (conflict_detector.py) and TrendAnalyzer (trend_analyzer.py), with one  *)
(* action per method a caller can invoke.  Every action records the call,  *)
(* its outcome (a returned value or a raised exception) and the record     *)
(* the call left in the log.                                               *)
(*                                                                         *)
(* Python values are modelled as follows.                                  *)
(*   str (content, excerpt)  a sequence of one-character strings           *)
(*   str (filename, jurisdiction, summary)  a TLA+ string: the code never  *)
(*                           looks inside these                            *)
(*   float                   an exact fraction <<n, d>> in lowest terms,   *)
(*                           d > 0 (rounding of binary floats is not       *)
(*                           modelled)                                     *)
(*   a value of unknown type a record tagged with its Python type in t,    *)
(*                           the value in a field named for the type       *)
(*   dict with fixed keys    a record; a result dict, whose keys vary, a   *)
(*                           record over the keys it has                   *)
(*   list                    a sequence                                    *)
(*                                                                         *)
(* No method of a class writes to the instance or to its arguments, so     *)
(* a behaviour fixes one request (the arguments of the caller) in its      *)
(* initial state and then calls methods on it in any order, any number of  *)
(* times.                                                                  *)
(***************************************************************************)
EXTENDS Integers, Sequences, FiniteSets, TLC

VARIABLES
    confidence_thresholds,  \* the generator's only attribute
    request,                \* the arguments the caller holds for its calls
    call,                   \* the method called last, with the arguments
                            \* that are not part of the request
    ret,                    \* the outcome of that call
    log,                    \* the level of the record that call logged, or ""
    threads,                \* concurrent callers of generate_response: where
                            \* each is in its call, and what its calls returned
    next_id                 \* the number of objects allocated so far

vars == <<confidence_thresholds, request, call, ret, log, threads, next_id>>

-----------------------------------------------------------------------------
(* Bounds of the model *)

\* longest search_results sequence a caller passes
MaxResults == 3

\* content lengths run from 0 to Slack, and from max_length - Slack to
\* max_length + Slack
Slack == 2

\* the length of the long content of a search result
LongLength == 600

\* concurrent callers of one generator; each makes one call
NumThreads == 2

\* conflicts in one list handed to the counters of ConflictDetector
MaxConflicts == 2

-----------------------------------------------------------------------------
(* Outcomes of a call *)

Ok(v) == [ok |-> TRUE, val |-> v]

Raise(e) == [ok |-> FALSE, exc |-> e]

-----------------------------------------------------------------------------
(* Exact fractions standing for Python floats *)

Abs(i) == IF i < 0 THEN -i ELSE i

RECURSIVE GCD(_, _)
GCD(a, b) == IF b = 0 THEN a ELSE GCD(b, a % b)

\* the fraction n/d in lowest terms, d > 0
Rat(n, d) ==
    LET g == GCD(Abs(n), Abs(d))
        s == IF d < 0 THEN -1 ELSE 1
    IN  <<(s * n) \div g, (s * d) \div g>>

RAdd(p, q) == Rat(p[1] * q[2] + q[1] * p[2], p[2] * q[2])

RMul(p, q) == Rat(p[1] * q[1], p[2] * q[2])

RDivInt(p, k) == Rat(p[1], p[2] * k)

RLeq(p, q) == p[1] * q[2] <= q[1] * p[2]

RLt(p, q) == p[1] * q[2] < q[1] * p[2]

\* Python's min(a, b) on floats: b only when b < a
RMin(p, q) == IF RLt(q, p) THEN q ELSE p

Zero == Rat(0, 1)

One == Rat(1, 1)

-----------------------------------------------------------------------------
(* Python values of a type the code does not fix *)

PyNone == [t |-> "NoneType"]

PyStr(s) == [t |-> "str", s |-> s]

PyInt(i) == [t |-> "int", i |-> i]

PyFloat(q) == [t |-> "float", f |-> q]

PyBool(b) == [t |-> "bool", b |-> b]

PyDict(d) == [t |-> "dict", d |-> d]

\* the truth value Python's `not x` negates
Truthy(x) ==
    CASE x.t = "NoneType" -> FALSE
      [] x.t = "str"      -> x.s # <<>>
      [] x.t = "int"      -> x.i # 0
      [] x.t = "float"    -> x.f # Zero
      [] x.t = "bool"     -> x.b
      [] x.t = "dict"     -> DOMAIN x.d # {}

\* result.get(key, default) on a dict
DictGet(result, key, default) ==
    IF key \in DOMAIN result.d THEN result.d[key] ELSE default

-----------------------------------------------------------------------------
(* format_excerpt *)

\* the default of the max_length parameter
DefaultMaxLength == 500

Ellipsis == <<".", ".", ".">>

\* s[:n]: the first n characters, all of s when it has fewer; for n < 0 all
\* but the last -n characters
Prefix(s, n) ==
    IF n >= Len(s) THEN s
    ELSE IF n >= 0 THEN SubSeq(s, 1, n)
    ELSE IF Len(s) + n > 0 THEN SubSeq(s, 1, Len(s) + n)
    ELSE <<>>

\* faulty variant: the cut takes one character too few
format_excerpt_short(content, max_length) ==
    IF ~Truthy(content) THEN Ok(<<>>)
    ELSE IF content.t # "str" THEN Raise("TypeError")
    ELSE IF Len(content.s) <= max_length THEN Ok(content.s)
    ELSE Ok(Prefix(content.s, max_length - 1) \o Ellipsis)

\* faulty variant: the comparison is strict, so content of exactly max_length
\* characters is cut as well
format_excerpt_strict(content, max_length) ==
    IF ~Truthy(content) THEN Ok(<<>>)
    ELSE IF content.t # "str" THEN Raise("TypeError")
    ELSE IF Len(content.s) < max_length THEN Ok(content.s)
    ELSE Ok(Prefix(content.s, max_length) \o Ellipsis)

format_excerpt(content, max_length) ==
    IF ~Truthy(content) THEN Ok(<<>>)
    \* len() of an int raises
    ELSE IF content.t # "str" THEN Raise("TypeError")
    ELSE IF Len(content.s) <= max_length THEN Ok(content.s)
    ELSE Ok(Prefix(content.s, max_length) \o Ellipsis)

-----------------------------------------------------------------------------
(* format_sources *)

RECURSIVE format_sources_loop(_, _)
format_sources_loop(search_results, sources) ==
    IF search_results = <<>> THEN Ok(sources)
    ELSE LET result == Head(search_results)
         IN  \* .get on a value that is no dict raises
             IF result.t # "dict" THEN Raise("AttributeError")
             ELSE LET excerpt == format_excerpt(
                                     DictGet(result, "content", PyStr(<<>>)),
                                     DefaultMaxLength)
                  IN  IF ~excerpt.ok THEN excerpt
                      ELSE format_sources_loop(
                               Tail(search_results),
                               Append(sources,
                                      [document     |-> DictGet(result, "filename", ""),
                                       jurisdiction |-> DictGet(result, "jurisdiction", ""),
                                       relevance    |-> DictGet(result, "score", PyFloat(Zero)),
                                       excerpt      |-> excerpt.val]))

format_sources(search_results) == format_sources_loop(search_results, <<>>)

-----------------------------------------------------------------------------
(* Methods the class calls on self and does not define.  The class has no  *)
(* base class and no __getattr__, so looking any of them up raises         *)
(* AttributeError before the call is made.                                 *)

generate_summary(search_results) == Raise("AttributeError")

extract_key_points(search_results) == Raise("AttributeError")

calculate_relevance(search_results) == Raise("AttributeError")

extract_brazilian_requirements(search_results) == Raise("AttributeError")

extract_us_requirements(search_results) == Raise("AttributeError")

extract_eu_requirements(search_results) == Raise("AttributeError")

find_common_requirements(search_results) == Raise("AttributeError")

find_jurisdiction_differences(search_results) == Raise("AttributeError")

identify_unique_requirements(search_results) == Raise("AttributeError")

is_primary_source(result) == Raise("AttributeError")

is_recent_document(result) == Raise("AttributeError")

-----------------------------------------------------------------------------
(* extract_main_answer, get_jurisdiction_requirements and                  *)
(* get_comparative_analysis: a dict display evaluates its values in order, *)
(* and the first that raises ends the method.                              *)

extract_main_answer(search_results) ==
    LET summary == generate_summary(search_results)
        key_points == extract_key_points(search_results)
        relevance_score == calculate_relevance(search_results)
    IN  IF ~summary.ok THEN summary
        ELSE IF ~key_points.ok THEN key_points
        ELSE IF ~relevance_score.ok THEN relevance_score
        ELSE Ok([summary         |-> summary.val,
                 key_points      |-> key_points.val,
                 relevance_score |-> relevance_score.val])

get_jurisdiction_requirements(search_results) ==
    LET br == extract_brazilian_requirements(search_results)
        us == extract_us_requirements(search_results)
        eu == extract_eu_requirements(search_results)
    IN  IF ~br.ok THEN br
        ELSE IF ~us.ok THEN us
        ELSE IF ~eu.ok THEN eu
        ELSE Ok([br |-> br.val, us |-> us.val, eu |-> eu.val])

get_comparative_analysis(search_results) ==
    LET similarities == find_common_requirements(search_results)
        differences == find_jurisdiction_differences(search_results)
        unique_aspects == identify_unique_requirements(search_results)
    IN  IF ~similarities.ok THEN similarities
        ELSE IF ~differences.ok THEN differences
        ELSE IF ~unique_aspects.ok THEN unique_aspects
        ELSE Ok([similarities   |-> similarities.val,
                 differences    |-> differences.val,
                 unique_aspects |-> unique_aspects.val])

-----------------------------------------------------------------------------
(* apply_source_weights and calculate_confidence_score *)

weights ==
    [primary_source       |-> Rat(12, 10),
     recent_document      |-> Rat(11, 10),
     official_translation |-> Rat(10, 10),
     unofficial_source    |-> Rat(8, 10)]

RECURSIVE apply_source_weights_loop(_, _)
apply_source_weights_loop(weighted_score, search_results) ==
    IF search_results = <<>> THEN Ok(weighted_score)
    ELSE LET result == Head(search_results)
             primary == is_primary_source(result)
             recent == is_recent_document(result)
         IN  IF ~primary.ok THEN primary
             ELSE LET w1 == IF primary.val
                            THEN RMul(weighted_score, weights.primary_source)
                            ELSE weighted_score
                  IN  IF ~recent.ok THEN recent
                      ELSE apply_source_weights_loop(
                               IF recent.val
                               THEN RMul(w1, weights.recent_document)
                               ELSE w1,
                               Tail(search_results))

apply_source_weights(base_score, search_results) ==
    apply_source_weights_loop(base_score, search_results)

\* the first search result that is no dict, if any: .get raises on it
HasNonDict(search_results) ==
    \E i \in 1..Len(search_results) : search_results[i].t # "dict"

\* [result.get('score', 0.0) for result in search_results]
ScoresOf(search_results) ==
    [i \in 1..Len(search_results) |->
        DictGet(search_results[i], "score", PyFloat(Zero))]

IsNumber(x) == x.t \in {"int", "float"}

NumberValue(x) == IF x.t = "int" THEN Rat(x.i, 1) ELSE x.f

\* sum(scores): 0 + scores[0] + scores[1] + ...; adding a str or None to a
\* number raises
RECURSIVE sum_loop(_, _)
sum_loop(total, scores) ==
    IF scores = <<>> THEN Ok(total)
    ELSE IF ~IsNumber(Head(scores)) THEN Raise("TypeError")
    ELSE sum_loop(RAdd(total, NumberValue(Head(scores))), Tail(scores))

calculate_confidence_score(search_results) ==
    IF search_results = <<>> THEN Ok(Zero)
    ELSE IF HasNonDict(search_results) THEN Raise("AttributeError")
    ELSE LET total == sum_loop(Zero, ScoresOf(search_results))
         IN  IF ~total.ok THEN total
             ELSE LET avg_score == RDivInt(total.val, Len(search_results))
                      weighted_score ==
                          apply_source_weights(avg_score, search_results)
                  IN  IF ~weighted_score.ok THEN weighted_score
                      ELSE Ok(RMin(One, weighted_score.val))

-----------------------------------------------------------------------------
(* generate_error_response and generate_response *)

\* Python's {}: the mapping with no key
EmptyDict == [k \in {} |-> k]

\* faulty variant: the error response keeps the three jurisdiction keys of a
\* regular response
generate_error_response_keyed ==
    [direct_answer         |-> [summary         |-> "Unable to generate response",
                                key_points      |-> <<>>,
                                relevance_score |-> Zero],
     jurisdiction_specific |-> [br |-> <<>>, us |-> <<>>, eu |-> <<>>],
     cross_jurisdiction    |-> EmptyDict,
     sources               |-> <<>>,
     confidence            |-> Zero]

generate_error_response ==
    [direct_answer         |-> [summary         |-> "Unable to generate response",
                                key_points      |-> <<>>,
                                relevance_score |-> Zero],
     jurisdiction_specific |-> EmptyDict,
     cross_jurisdiction    |-> EmptyDict,
     sources               |-> <<>>,
     confidence            |-> Zero]

\* the body of the try block: the response, or the exception a stage raised
generate_response_try(search_results) ==
    LET direct_answer == extract_main_answer(search_results)
        jurisdiction_specific == get_jurisdiction_requirements(search_results)
        cross_jurisdiction == get_comparative_analysis(search_results)
        sources == format_sources(search_results)
        confidence == calculate_confidence_score(search_results)
    IN  IF ~direct_answer.ok THEN direct_answer
        ELSE IF ~jurisdiction_specific.ok THEN jurisdiction_specific
        ELSE IF ~cross_jurisdiction.ok THEN cross_jurisdiction
        ELSE IF ~sources.ok THEN sources
        ELSE IF ~confidence.ok THEN confidence
        ELSE Ok([direct_answer         |-> direct_answer.val,
                 jurisdiction_specific |-> jurisdiction_specific.val,
                 cross_jurisdiction    |-> cross_jurisdiction.val,
                 sources               |-> sources.val,
                 confidence            |-> confidence.val])

\* the exception classes the methods raise; both derive from Exception
ExceptionSubclasses == {"AttributeError", "TypeError"}

\* faulty variant: the handler names TypeError alone and lets the rest through
generate_response_narrow(query, search_results) ==
    LET response == generate_response_try(search_results)
    IN  IF response.ok
        THEN [res |-> Ok(response.val), level |-> "INFO"]
        ELSE IF response.exc = "TypeError"
        THEN [res |-> Ok(generate_error_response), level |-> "ERROR"]
        ELSE [res |-> response, level |-> ""]

\* faulty variant: the handler keeps the sources when format_sources can
\* build them, and fills the rest with the defaults
generate_response_partial(query, search_results) ==
    LET response == generate_response_try(search_results)
        sources == format_sources(search_results)
    IN  IF response.ok
        THEN [res |-> Ok(response.val), level |-> "INFO"]
        ELSE [res |-> Ok([generate_error_response EXCEPT
                             !.sources = IF sources.ok THEN sources.val
                                         ELSE <<>>]),
              level |-> "ERROR"]

\* res is the outcome the caller sees, level the level of the record logged;
\* `except Exception` catches what the try block raised and the handler
\* returns the error response
generate_response(query, search_results) ==
    LET response == generate_response_try(search_results)
    IN  IF response.ok
        THEN [res |-> Ok(response.val), level |-> "INFO"]
        ELSE IF response.exc \in ExceptionSubclasses
        THEN [res |-> Ok(generate_error_response), level |-> "ERROR"]
        ELSE [res |-> response, level |-> ""]

-----------------------------------------------------------------------------
(* The arguments callers pass *)

\* a text of n characters: one character repeated, or "abcabc..."
Text(n, pattern) ==
    [i \in 1..n |->
        IF pattern = "cyclic" THEN <<"a", "b", "c">>[((i - 1) % 3) + 1]
        ELSE pattern]

Patterns == {"x", ".", "cyclic"}

Limits == {DefaultMaxLength} \cup (-Slack..Slack)

LengthsNear(limit) ==
    {n \in (limit - Slack)..(limit + Slack) : n >= 0}

Lengths == (0..Slack) \cup LengthsNear(DefaultMaxLength) \cup {LongLength}

\* the content argument of format_excerpt: texts, None, and ints
Contents ==
    {PyStr(Text(n, p)) : n \in Lengths, p \in Patterns}
        \cup {PyNone, PyInt(0), PyInt(5)}

Result(content, filename, jurisdiction, score) ==
    PyDict([content      |-> PyStr(content),
            filename     |-> filename,
            jurisdiction |-> jurisdiction,
            score        |-> PyFloat(score)])

\* well-formed results of the three jurisdictions with the contents "a" and
\* "b" and a long content, two of them with a score outside [0, 1]
BrA == Result(<<"a">>, "doc0", "br", Rat(9, 10))

BrB == Result(<<"b">>, "doc2", "br", Rat(5, 10))

BrLong == Result(Text(LongLength, "x"), "doc1", "br", Rat(9, 10))

UsA == Result(<<"a">>, "doc3", "us", Rat(-5, 10))

EuA == Result(<<"a">>, "doc4", "eu", Rat(5, 10))

\* a result of a jurisdiction that is none of br, us, eu
JpA == Result(<<"a">>, "doc5", "jp", Rat(15, 10))

\* EuA with two more keys, by which a caller marks a result as a primary
\* source and as recent; no method of the class reads them
EuAFlagged ==
    PyDict([content        |-> PyStr(<<"a">>),
            filename       |-> "doc4",
            jurisdiction   |-> "eu",
            score          |-> PyFloat(Rat(5, 10)),
            primary_source |-> PyBool(TRUE),
            recent_document |-> PyBool(TRUE)])

\* malformed results: a dict with no key, a value that is no dict, a score
\* that is no number, a content that is no text
NoKeys == PyDict(EmptyDict)

NotADict == PyNone

BadScore == PyDict([score |-> PyStr(<<"h", "i">>)])

BadContent == PyDict([content |-> PyInt(5), score |-> PyFloat(Rat(5, 10))])

ResultPool ==
    {BrA, BrB, BrLong, UsA, EuA, EuAFlagged, JpA,
     NoKeys, NotADict, BadScore, BadContent}

ResultSeqs == UNION {[1..n -> ResultPool] : n \in 0..MaxResults}

\* the query argument, which no method reads
Queries == {"", "q"}

BaseScores == {Rat(-5, 10), Zero, Rat(9, 10)}

-----------------------------------------------------------------------------
(* ConflictDetector of backend/services/analysis/conflict_detector.py.     *)
(* A conflicts dict is a sequence of [key, val] pairs in insertion order,  *)
(* the order in which Python iterates it; a conflict is a record over the  *)
(* keys it has.                                                            *)

find_requirement_conflicts ==
    <<[topic |-> "Customer Due Diligence",
       conflict_type |-> "Threshold",
       jurisdictions |-> <<"us", "eu">>,
       description |-> "Different transaction thresholds for enhanced due diligence",
       details |-> [us |-> "USD 10,000 threshold",
                    eu |-> "EUR 15,000 threshold"],
       impact |-> "Medium",
       resolution |-> "Apply stricter threshold"],
      [topic |-> "Beneficial Ownership",
       conflict_type |-> "Definition",
       jurisdictions |-> <<"br", "eu">>,
       description |-> "Different ownership percentage thresholds",
       details |-> [br |-> "25% ownership threshold",
                    eu |-> "10% for high-risk cases"],
       impact |-> "High",
       resolution |-> "Maintain jurisdiction-specific thresholds"]>>

find_definition_conflicts ==
    <<[term |-> "Politically Exposed Person",
       conflict_type |-> "Scope",
       jurisdictions |-> <<"br", "us", "eu">>,
       description |-> "Varying definitions and time periods",
       details |-> [br |-> "Includes state-owned companies",
                    us |-> "Focus on foreign officials",
                    eu |-> "Includes domestic officials"],
       impact |-> "High",
       resolution |-> "Maintain combined list"]>>

find_procedure_conflicts ==
    <<[procedure |-> "Customer Identification",
       conflict_type |-> "Documentation",
       jurisdictions |-> <<"us", "eu">>,
       description |-> "Different documentation requirements",
       details |-> [us |-> "Specific document types required",
                    eu |-> "Risk-based approach to documentation"],
       impact |-> "Medium",
       resolution |-> "Maintain jurisdiction-specific procedures"]>>

find_timeline_conflicts ==
    <<[requirement |-> "Suspicious Activity Reporting",
       conflict_type |-> "Deadline",
       jurisdictions |-> <<"br", "us">>,
       description |-> "Different reporting deadlines",
       details |-> [br |-> "24 hours for certain cases",
                    us |-> "30 days standard deadline"],
       impact |-> "High",
       resolution |-> "Follow stricter timeline"]>>

\* the detector as its callers see it: the outcome of each finder.  The
\* class's own finders return their tables; a finder overridden in a
\* subclass or replaced on the instance may raise.
BuiltinFinders ==
    [requirements |-> Ok(find_requirement_conflicts),
     definitions  |-> Ok(find_definition_conflicts),
     procedures   |-> Ok(find_procedure_conflicts),
     timelines    |-> Ok(find_timeline_conflicts)]

Detectors ==
    {[k \in DOMAIN BuiltinFinders |->
          IF k \in faulty THEN Raise("Exception") ELSE BuiltinFinders[k]] :
        faulty \in SUBSET DOMAIN BuiltinFinders}

\* the dict of the four finders' lists, or {} when a finder raises
analyze_conflicts(self) ==
    IF \E k \in DOMAIN self : ~self[k].ok
    THEN [val |-> <<>>, level |-> "ERROR"]
    ELSE [val |-> <<[key |-> "requirements", val |-> self.requirements.val],
                    [key |-> "definitions", val |-> self.definitions.val],
                    [key |-> "procedures", val |-> self.procedures.val],
                    [key |-> "timelines", val |-> self.timelines.val]>>,
          level |-> "INFO"]

\* conflict.get(key, default)
ConflictGet(conflict, key, default) ==
    IF key \in DOMAIN conflict THEN conflict[key] ELSE default

\* sum(1 for c in conflict_list if c.get('impact') == impact)
RECURSIVE count_in_list(_, _)
count_in_list(conflict_list, impact) ==
    IF conflict_list = <<>> THEN 0
    ELSE (IF ConflictGet(Head(conflict_list), "impact", "None") = impact
          THEN 1 ELSE 0)
         + count_in_list(Tail(conflict_list), impact)

\* the loop over conflicts.values() that the three counters share
RECURSIVE count_impact(_, _)
count_impact(conflicts, impact) ==
    IF conflicts = <<>> THEN 0
    ELSE count_in_list(Head(conflicts).val, impact)
         + count_impact(Tail(conflicts), impact)

count_high_impact_conflicts(conflicts) == count_impact(conflicts, "High")

\* faulty variant: counts the high-impact conflicts as medium ones
count_medium_impact_conflicts_high(conflicts) == count_impact(conflicts, "High")

count_medium_impact_conflicts(conflicts) == count_impact(conflicts, "Medium")

count_low_impact_conflicts(conflicts) == count_impact(conflicts, "Low")

\* sum(len(c) for c in conflicts.values())
RECURSIVE total_conflicts(_)
total_conflicts(conflicts) ==
    IF conflicts = <<>> THEN 0
    ELSE Len(Head(conflicts).val) + total_conflicts(Tail(conflicts))

suggest_implementation(conflict) ==
    [approach |-> "Risk-based",
     steps |-> <<"Document jurisdiction-specific requirements",
                 "Implement stricter standard where applicable",
                 "Maintain audit trail of decision-making">>,
     timeline |-> "Short-term",
     resources_needed |-> "Medium"]

recommendation_for(conflict) ==
    [priority       |-> "High",
     topic          |-> ConflictGet(conflict, "topic", ""),
     recommendation |-> ConflictGet(conflict, "resolution", ""),
     implementation |-> suggest_implementation(conflict)]

\* faulty variant: recommends for the medium-impact conflicts too
RECURSIVE recommend_list_medium(_)
recommend_list_medium(conflict_list) ==
    IF conflict_list = <<>> THEN <<>>
    ELSE (IF ConflictGet(Head(conflict_list), "impact", "None")
                 \in {"High", "Medium"}
          THEN <<recommendation_for(Head(conflict_list))>> ELSE <<>>)
         \o recommend_list_medium(Tail(conflict_list))

\* the inner loop of generate_recommendations
RECURSIVE recommend_list(_)
recommend_list(conflict_list) ==
    IF conflict_list = <<>> THEN <<>>
    ELSE (IF ConflictGet(Head(conflict_list), "impact", "None") = "High"
          THEN <<recommendation_for(Head(conflict_list))>> ELSE <<>>)
         \o recommend_list(Tail(conflict_list))

RECURSIVE generate_recommendations(_)
generate_recommendations(conflicts) ==
    IF conflicts = <<>> THEN <<>>
    ELSE recommend_list(Head(conflicts).val)
         \o generate_recommendations(Tail(conflicts))

generate_conflict_report(self) ==
    LET analysis == analyze_conflicts(self)
        conflicts == analysis.val
    IN  [val |-> [summary |->
                      [total_conflicts |-> total_conflicts(conflicts),
                       high_impact |-> count_high_impact_conflicts(conflicts),
                       medium_impact |->
                           count_medium_impact_conflicts(conflicts),
                       low_impact |-> count_low_impact_conflicts(conflicts)],
                  conflicts |-> conflicts,
                  recommendations |-> generate_recommendations(conflicts)],
         level |-> analysis.level]

\* conflicts a caller may pass to the counters and to
\* generate_recommendations: with and without topic and resolution, of
\* every impact, of an impact the counters do not know, of none; under one
\* conflict type, or under two, the second with one conflict
HighA ==
    [topic |-> "Beneficial Ownership", impact |-> "High",
     resolution |-> "Maintain jurisdiction-specific thresholds"]

HighBare == [term |-> "Politically Exposed Person", impact |-> "High"]

MediumA ==
    [topic |-> "Customer Due Diligence", impact |-> "Medium",
     resolution |-> "Apply stricter threshold"]

LowA == [topic |-> "Record Keeping", impact |-> "Low", resolution |-> "Keep the longer period"]

CriticalA ==
    [topic |-> "Sanctions", impact |-> "Critical", resolution |-> "Escalate"]

NoImpact == [topic |-> "Training", resolution |-> "Review"]

ConflictPool == {HighA, HighBare, MediumA, LowA, CriticalA, NoImpact}

ConflictLists == UNION {[1..n -> ConflictPool] : n \in 0..MaxConflicts}

ConflictDicts ==
    {<<>>}
    \cup {<<[key |-> "requirements", val |-> a]>> : a \in ConflictLists}
    \cup {<<[key |-> "requirements", val |-> a],
            [key |-> "definitions", val |-> <<c>>]>> :
              a \in ConflictLists, c \in ConflictPool}

-----------------------------------------------------------------------------
(* TrendAnalyzer of backend/services/analysis/trend_analyzer.py *)

track_requirement_changes ==
    <<[requirement |-> "Customer Due Diligence",
       evolution |-> ("pre_2015" :> "Basic identification requirements"
                      @@ "2015_2018" :> "Risk-based approach introduction"
                      @@ "post_2018" :> "Enhanced digital verification methods"),
       trend |-> "Increasing complexity and technology adoption",
       jurisdictions |-> [br |-> "Following international standards",
                          us |-> "Leading digital adoption",
                          eu |-> "Comprehensive framework development"]],
      [requirement |-> "Transaction Monitoring",
       evolution |-> ("pre_2015" :> "Manual monitoring focus"
                      @@ "2015_2018" :> "Automated system requirements"
                      @@ "post_2018" :> "AI/ML capabilities emphasis"),
       trend |-> "Automation and advanced analytics adoption",
       jurisdictions |-> [br |-> "Technology-neutral requirements",
                          us |-> "Innovation-friendly approach",
                          eu |-> "Risk-based technology adoption"]]>>

identify_focus_shifts ==
    <<[area |-> "Digital Assets",
       trend |-> "Increasing focus",
       evolution |-> ("pre_2015" :> "Not specifically addressed"
                      @@ "2015_2018" :> "Initial guidance"
                      @@ "post_2018" :> "Comprehensive regulation"),
       jurisdictional_approach |-> [br |-> "Conservative approach",
                                    us |-> "Innovation-balanced regulation",
                                    eu |-> "Strict regulatory framework"]],
      [area |-> "Beneficial Ownership",
       trend |-> "Enhanced transparency",
       evolution |-> ("pre_2015" :> "Basic requirements"
                      @@ "2015_2018" :> "Enhanced verification"
                      @@ "post_2018" :> "Central registry requirements"),
       jurisdictional_approach |-> [br |-> "Registry implementation",
                                    us |-> "Corporate transparency focus",
                                    eu |-> "Public registry requirement"]]>>

analyze_stringency_changes ==
    [customer_due_diligence |-> <<[period |-> "post_2018",
                                   change |-> "Increased",
                                   drivers |-> <<"Digital transformation",
                                                 "Emerging risks",
                                                 "International standards">>]>>,
     reporting_requirements |-> <<[period |-> "post_2018",
                                   change |-> "Enhanced",
                                   drivers |-> <<"Technology capabilities",
                                                 "Data quality focus",
                                                 "Cross-border cooperation">>]>>]

identify_common_patterns ==
    <<[pattern |-> "Risk-Based Approach",
       adoption |-> ("pre_2015" :> "Limited"
                     @@ "2015_2018" :> "Growing"
                     @@ "post_2018" :> "Universal"),
       implementation |-> [br |-> "Structured framework",
                           us |-> "Flexible approach",
                           eu |-> "Detailed guidance"]],
      [pattern |-> "Technology Integration",
       adoption |-> ("pre_2015" :> "Optional"
                     @@ "2015_2018" :> "Recommended"
                     @@ "post_2018" :> "Expected"),
       implementation |-> [br |-> "Technology-neutral",
                           us |-> "Innovation-friendly",
                           eu |-> "Prescribed standards"]]>>

\* the analyzer as its callers see it: the outcome of each tracker.  The
\* class's own trackers return their tables; a tracker overridden in a
\* subclass or replaced on the instance may raise.
BuiltinTrackers ==
    [requirements_evolution |-> Ok(track_requirement_changes),
     focus_areas            |-> Ok(identify_focus_shifts),
     stringency_levels      |-> Ok(analyze_stringency_changes),
     common_patterns        |-> Ok(identify_common_patterns)]

Analyzers ==
    {[k \in DOMAIN BuiltinTrackers |->
          IF k \in faulty THEN Raise("Exception") ELSE BuiltinTrackers[k]] :
        faulty \in SUBSET DOMAIN BuiltinTrackers}

\* the dict of the four trackers' results, or {} when a tracker raises
analyze_regulatory_trends(self) ==
    IF \E k \in DOMAIN self : ~self[k].ok
    THEN [val |-> EmptyDict, level |-> "ERROR"]
    ELSE [val |-> [k \in DOMAIN self |-> self[k].val], level |-> "INFO"]

summarize_key_trends(trends) ==
    <<[trend |-> "Digital Transformation",
       impact |-> "High",
       timeframe |-> "Current",
       description |-> "Increasing focus on digital solutions and capabilities"],
      [trend |-> "Risk-Based Approach",
       impact |-> "High",
       timeframe |-> "Established",
       description |-> "Universal adoption of risk-based methodologies"]>>

identify_emerging_areas(trends) ==
    <<[area |-> "AI/ML in Compliance",
       maturity |-> "Emerging",
       relevance |-> "High",
       jurisdictional_status |-> [br |-> "Early stage",
                                  us |-> "Advanced adoption",
                                  eu |-> "Framework development"]]>>

project_future_trends(trends) ==
    <<[trend |-> "Real-time Monitoring",
       likelihood |-> "High",
       timeframe |-> "1-3 years",
       drivers |-> <<"Technology advancement",
                     "Regulatory expectations",
                     "Risk management needs">>]>>

\* called at line 187 and defined nowhere in the class
generate_trend_recommendations(trends) == Raise("AttributeError")

\* the dict display evaluates summary, then detailed_analysis, then
\* recommendations; an exception of any of them leaves the method
generate_trend_report(self) ==
    LET analysis == analyze_regulatory_trends(self)
        trends == analysis.val
        recommendations == generate_trend_recommendations(trends)
    IN  [res |-> IF ~recommendations.ok THEN recommendations
                 ELSE Ok([summary |->
                              [key_trends |-> summarize_key_trends(trends),
                               emerging_areas |-> identify_emerging_areas(trends),
                               future_outlook |-> project_future_trends(trends)],
                          detailed_analysis |-> trends,
                          recommendations |-> recommendations.val]),
         level |-> analysis.level]

\* the trends a caller may pass to the three summaries
TrendDicts == {EmptyDict, analyze_regulatory_trends(BuiltinTrackers).val}

-----------------------------------------------------------------------------
(* What a caller hands to the three services *)

Requests ==
    {[kind |-> "results", query |-> q, search_results |-> sr] :
        q \in Queries, sr \in ResultSeqs}
    \cup {[kind |-> "content", content |-> c] : c \in Contents}
    \cup {[kind |-> "detector", self |-> d] : d \in Detectors}
    \cup {[kind |-> "conflicts", conflicts |-> c] : c \in ConflictDicts}
    \cup {[kind |-> "conflict", conflict |-> c] : c \in ConflictPool}
    \cup {[kind |-> "analyzer", self |-> a] : a \in Analyzers}
    \cup {[kind |-> "trends", trends |-> t] : t \in TrendDicts}

-----------------------------------------------------------------------------
(* The state machine *)

\* __init__ sets the thresholds; no method has been called
Init ==
    /\ confidence_thresholds =
           [high |-> Rat(8, 10), medium |-> Rat(6, 10), low |-> Rat(4, 10)]
    /\ request \in Requests
    /\ call = [op |-> "__init__"]
    /\ ret = Ok(PyNone)
    /\ log = ""
    /\ threads = <<>>
    /\ next_id = 0

\* a call of an operation that logs nothing
Returns(op, outcome) ==
    /\ call' = [op |-> op]
    /\ ret' = outcome
    /\ log' = ""
    /\ UNCHANGED <<confidence_thresholds, request, threads, next_id>>

GenerateResponse ==
    /\ request.kind = "results"
    /\ LET r == generate_response(request.query, request.search_results)
       IN  /\ call' = [op |-> "generate_response"]
           /\ ret' = r.res
           /\ log' = r.level
    /\ UNCHANGED <<confidence_thresholds, request, threads, next_id>>

ExtractMainAnswer ==
    /\ request.kind = "results"
    /\ Returns("extract_main_answer",
               extract_main_answer(request.search_results))

GetJurisdictionRequirements ==
    /\ request.kind = "results"
    /\ Returns("get_jurisdiction_requirements",
               get_jurisdiction_requirements(request.search_results))

GetComparativeAnalysis ==
    /\ request.kind = "results"
    /\ Returns("get_comparative_analysis",
               get_comparative_analysis(request.search_results))

FormatSources ==
    /\ request.kind = "results"
    /\ Returns("format_sources", format_sources(request.search_results))

CalculateConfidenceScore ==
    /\ request.kind = "results"
    /\ Returns("calculate_confidence_score",
               calculate_confidence_score(request.search_results))

ApplySourceWeights ==
    /\ request.kind = "results"
    /\ \E base_score \in BaseScores :
           /\ call' = [op |-> "apply_source_weights", base_score |-> base_score]
           /\ ret' = apply_source_weights(base_score, request.search_results)
           /\ log' = ""
    /\ UNCHANGED <<confidence_thresholds, request, threads, next_id>>

GenerateErrorResponse ==
    /\ request.kind \in {"results", "content"}
    /\ Returns("generate_error_response", Ok(generate_error_response))

FormatExcerpt ==
    /\ request.kind = "content"
    /\ \E max_length \in Limits :
           /\ call' = [op |-> "format_excerpt", max_length |-> max_length]
           /\ ret' = format_excerpt(request.content, max_length)
           /\ log' = ""
    /\ UNCHANGED <<confidence_thresholds, request, threads, next_id>>

\* a call that leaves a record of the given level in the log
Logs(op, outcome, level) ==
    /\ call' = [op |-> op]
    /\ ret' = outcome
    /\ log' = level
    /\ UNCHANGED <<confidence_thresholds, request, threads, next_id>>

AnalyzeConflicts ==
    /\ request.kind = "detector"
    /\ LET analysis == analyze_conflicts(request.self)
       IN  Logs("analyze_conflicts", Ok(analysis.val), analysis.level)

FindRequirementConflicts ==
    /\ request.kind = "detector"
    /\ Returns("find_requirement_conflicts", request.self.requirements)

FindDefinitionConflicts ==
    /\ request.kind = "detector"
    /\ Returns("find_definition_conflicts", request.self.definitions)

FindProcedureConflicts ==
    /\ request.kind = "detector"
    /\ Returns("find_procedure_conflicts", request.self.procedures)

FindTimelineConflicts ==
    /\ request.kind = "detector"
    /\ Returns("find_timeline_conflicts", request.self.timelines)

GenerateConflictReport ==
    /\ request.kind = "detector"
    /\ LET report == generate_conflict_report(request.self)
       IN  Logs("generate_conflict_report", Ok(report.val), report.level)

CountHighImpactConflicts ==
    /\ request.kind = "conflicts"
    /\ Returns("count_high_impact_conflicts",
               Ok(count_high_impact_conflicts(request.conflicts)))

CountMediumImpactConflicts ==
    /\ request.kind = "conflicts"
    /\ Returns("count_medium_impact_conflicts",
               Ok(count_medium_impact_conflicts(request.conflicts)))

CountLowImpactConflicts ==
    /\ request.kind = "conflicts"
    /\ Returns("count_low_impact_conflicts",
               Ok(count_low_impact_conflicts(request.conflicts)))

GenerateRecommendations ==
    /\ request.kind = "conflicts"
    /\ Returns("generate_recommendations",
               Ok(generate_recommendations(request.conflicts)))

SuggestImplementation ==
    /\ request.kind = "conflict"
    /\ Returns("suggest_implementation",
               Ok(suggest_implementation(request.conflict)))

AnalyzeRegulatoryTrends ==
    /\ request.kind = "analyzer"
    /\ LET analysis == analyze_regulatory_trends(request.self)
       IN  Logs("analyze_regulatory_trends", Ok(analysis.val), analysis.level)

TrackRequirementChanges ==
    /\ request.kind = "analyzer"
    /\ Returns("track_requirement_changes",
               request.self.requirements_evolution)

IdentifyFocusShifts ==
    /\ request.kind = "analyzer"
    /\ Returns("identify_focus_shifts", request.self.focus_areas)

AnalyzeStringencyChanges ==
    /\ request.kind = "analyzer"
    /\ Returns("analyze_stringency_changes", request.self.stringency_levels)

IdentifyCommonPatterns ==
    /\ request.kind = "analyzer"
    /\ Returns("identify_common_patterns", request.self.common_patterns)

GenerateTrendReport ==
    /\ request.kind = "analyzer"
    /\ LET report == generate_trend_report(request.self)
       IN  Logs("generate_trend_report", report.res, report.level)

SummarizeKeyTrends ==
    /\ request.kind = "trends"
    /\ Returns("summarize_key_trends",
               Ok(summarize_key_trends(request.trends)))

IdentifyEmergingAreas ==
    /\ request.kind = "trends"
    /\ Returns("identify_emerging_areas",
               Ok(identify_emerging_areas(request.trends)))

ProjectFutureTrends ==
    /\ request.kind = "trends"
    /\ Returns("project_future_trends",
               Ok(project_future_trends(request.trends)))

Next ==
    \/ GenerateResponse
    \/ ExtractMainAnswer
    \/ GetJurisdictionRequirements
    \/ GetComparativeAnalysis
    \/ FormatSources
    \/ CalculateConfidenceScore
    \/ ApplySourceWeights
    \/ GenerateErrorResponse
    \/ FormatExcerpt
    \/ AnalyzeConflicts
    \/ FindRequirementConflicts
    \/ FindDefinitionConflicts
    \/ FindProcedureConflicts
    \/ FindTimelineConflicts
    \/ GenerateConflictReport
    \/ CountHighImpactConflicts
    \/ CountMediumImpactConflicts
    \/ CountLowImpactConflicts
    \/ GenerateRecommendations
    \/ SuggestImplementation
    \/ AnalyzeRegulatoryTrends
    \/ TrackRequirementChanges
    \/ IdentifyFocusShifts
    \/ AnalyzeStringencyChanges
    \/ IdentifyCommonPatterns
    \/ GenerateTrendReport
    \/ SummarizeKeyTrends
    \/ IdentifyEmergingAreas
    \/ ProjectFutureTrends

Spec == Init /\ [][Next]_vars

-----------------------------------------------------------------------------
(* Properties of generate_response *)

Range(seq) == {seq[i] : i \in 1..Len(seq)}

\* some stage of generate_response raises on these results
StageFaults(search_results) ==
    \/ ~extract_main_answer(search_results).ok
    \/ ~get_jurisdiction_requirements(search_results).ok
    \/ ~get_comparative_analysis(search_results).ok
    \/ ~format_sources(search_results).ok
    \/ ~calculate_confidence_score(search_results).ok

\* C1: generate_response never raises to its caller, whatever the results
\* (malformed ones included), and when a stage of the synthesis faults it
\* returns exactly the response of generate_error_response.
C1_NeverRaises ==
    call.op = "generate_response" =>
        /\ ret.ok
        /\ StageFaults(request.search_results) =>
               ret.val = generate_error_response

\* generate_response has returned the error response for results holding a
\* value that is no dict
C1_Witness ==
    /\ call.op = "generate_response"
    /\ NotADict \in Range(request.search_results)
    /\ ret = Ok(generate_error_response)
    /\ log = "ERROR"

\* C2: for an empty result sequence generate_response returns confidence
\* 0.0 and empty key_points, jurisdiction_specific, cross_jurisdiction and
\* sources.
C2_EmptyResults ==
    (call.op = "generate_response" /\ request.search_results = <<>>) =>
        /\ ret.ok
        /\ ret.val.confidence = Zero
        /\ ret.val.direct_answer.key_points = <<>>
        /\ DOMAIN ret.val.jurisdiction_specific = {}
        /\ DOMAIN ret.val.cross_jurisdiction = {}
        /\ ret.val.sources = <<>>

\* generate_response has returned for the empty sequence
C2_Witness ==
    /\ call.op = "generate_response"
    /\ request.search_results = <<>>
    /\ ret.ok
    /\ ret.val.confidence = Zero

-----------------------------------------------------------------------------
(* Well-formed results, as the retrieval side produces them: a dict with a *)
(* text content, a filename, a jurisdiction and a numeric score            *)

WellFormed(result) ==
    /\ result.t = "dict"
    /\ {"content", "filename", "jurisdiction", "score"} \subseteq DOMAIN result.d
    /\ result.d.content.t = "str"
    /\ result.d.score.t = "float"

AllWellFormed(search_results) ==
    \A i \in 1..Len(search_results) : WellFormed(search_results[i])

InUnitInterval(q) == RLeq(Zero, q) /\ RLeq(q, One)

\* C3: calculate_confidence_score produces, for any results, a value in
\* [0.0, 1.0], and so does generate_response in the confidence field, also
\* for scores below 0 or above 1.
C3_ConfidenceInUnitInterval ==
    /\ (/\ call.op = "calculate_confidence_score"
        /\ AllWellFormed(request.search_results)) =>
           ret.ok /\ InUnitInterval(ret.val)
    /\ (/\ call.op = "generate_response"
        /\ AllWellFormed(request.search_results)) =>
           ret.ok /\ InUnitInterval(ret.val.confidence)

\* the excerpt the source entry of a content is to carry
ExpectedExcerpt(text) ==
    IF Len(text) <= DefaultMaxLength THEN text
    ELSE [i \in 1..(DefaultMaxLength + 3) |->
             IF i <= DefaultMaxLength THEN text[i] ELSE "."]

\* the source entry built from a well-formed result
SourceOf(result) ==
    [document     |-> result.d.filename,
     jurisdiction |-> result.d.jurisdiction,
     relevance    |-> result.d.score,
     excerpt      |-> ExpectedExcerpt(result.d.content.s)]

SourcesMatch(sources, search_results) ==
    /\ Len(sources) = Len(search_results)
    /\ \A i \in 1..Len(search_results) :
           sources[i] = SourceOf(search_results[i])

\* C4: the sources of the response of generate_response have one entry per
\* input result, the i-th built from the i-th result.
C4_SourcesPreserveInput ==
    (call.op = "generate_response" /\ AllWellFormed(request.search_results)) =>
        /\ ret.ok
        /\ SourcesMatch(ret.val.sources, request.search_results)

\* format_sources, called on its own, returns one entry per result, in order
FormatSourcesPreservesInput ==
    (call.op = "format_sources" /\ AllWellFormed(request.search_results)) =>
        /\ ret.ok
        /\ SourcesMatch(ret.val, request.search_results)

-----------------------------------------------------------------------------
(* Properties of format_excerpt *)

\* C5: with the default limit format_excerpt returns a content of at most
\* 500 characters unchanged (one of exactly 500 included), and for a longer
\* content its first 500 characters followed by "...", 503 characters in all.
C5_ExcerptAtDefaultLimit ==
    (/\ call.op = "format_excerpt"
     /\ call.max_length = DefaultMaxLength
     /\ request.content.t = "str") =>
        LET text == request.content.s
        IN  /\ ret.ok
            /\ Len(text) <= 500 => ret.val = text
            /\ Len(text) > 500 =>
                   /\ Len(ret.val) = 503
                   /\ \A i \in 1..500 : ret.val[i] = text[i]
                   /\ \A i \in 501..503 : ret.val[i] = "."

\* format_excerpt has cut a content of 501 characters to 503
C5_Witness ==
    /\ call.op = "format_excerpt"
    /\ call.max_length = DefaultMaxLength
    /\ request.content.t = "str"
    /\ Len(request.content.s) = 501
    /\ ret.ok
    /\ Len(ret.val) = 503

-----------------------------------------------------------------------------
(* Properties of the jurisdiction breakdown and the comparison.  The item  *)
(* of a result, by which results are compared across jurisdictions, is its *)
(* content.                                                                *)

KnownJurisdictions == {"br", "us", "eu"}

\* the jurisdictions of br, us, eu that have a result
Present(search_results) ==
    {r.d.jurisdiction : r \in Range(search_results)} \cap KnownJurisdictions

\* the items of jurisdiction j
Items(search_results, j) ==
    {r.d.content.s : r \in {x \in Range(search_results) : x.d.jurisdiction = j}}

\* C6: a result of a jurisdiction other than br, us, eu is tolerated by
\* generate_response: it has its entry in sources and counts in the
\* confidence, while its jurisdiction is no key of jurisdiction_specific and
\* of no group of cross_jurisdiction.
C6_UnknownJurisdictionTolerated ==
    (call.op = "generate_response" /\ AllWellFormed(request.search_results)) =>
        \A i \in 1..Len(request.search_results) :
            LET result == request.search_results[i]
            IN  result.d.jurisdiction \notin KnownJurisdictions =>
                    /\ ret.ok
                    /\ Len(ret.val.sources) >= i
                    /\ ret.val.sources[i] = SourceOf(result)
                    /\ (\A k \in 1..Len(request.search_results) :
                            RLt(Zero, request.search_results[k].d.score.f))
                           => RLt(Zero, ret.val.confidence)
                    /\ result.d.jurisdiction
                           \notin DOMAIN ret.val.jurisdiction_specific
                    /\ \A group \in DOMAIN ret.val.cross_jurisdiction \ {"similarities"} :
                           result.d.jurisdiction
                               \notin DOMAIN ret.val.cross_jurisdiction[group]

\* C7: over results of two or more jurisdictions get_comparative_analysis
\* returns as similarities the items that appear in every jurisdiction
\* present, and as unique_aspects[j] the items of j that appear in no other
\* jurisdiction present.
C7_SimilaritiesAndUniqueAspects ==
    (/\ call.op = "get_comparative_analysis"
     /\ AllWellFormed(request.search_results)
     /\ Cardinality(Present(request.search_results)) >= 2) =>
        LET sr == request.search_results
            present == Present(sr)
        IN  /\ ret.ok
            /\ ret.val.similarities =
                   {x \in UNION {Items(sr, j) : j \in present} :
                       \A j \in present : x \in Items(sr, j)}
            /\ \A j \in present :
                   ret.val.unique_aspects[j] =
                       {x \in Items(sr, j) :
                           \A k \in present \ {j} : x \notin Items(sr, k)}

\* C8: over results of no or of one jurisdiction get_comparative_analysis
\* returns empty similarities, empty differences, and as unique_aspects[j]
\* all items of the jurisdiction present.
C8_SingleJurisdiction ==
    (/\ call.op = "get_comparative_analysis"
     /\ AllWellFormed(request.search_results)
     /\ Cardinality(Present(request.search_results)) <= 1) =>
        LET sr == request.search_results
        IN  /\ ret.ok
            /\ ret.val.similarities = {}
            /\ \A j \in DOMAIN ret.val.differences :
                   ret.val.differences[j] = {}
            /\ \A j \in Present(sr) :
                   ret.val.unique_aspects[j] = Items(sr, j)

-----------------------------------------------------------------------------
(* Properties of the weighting and of the direct answer *)

\* the caller marks the result as a primary source and as recent
FlaggedBoth(result) ==
    /\ {"primary_source", "recent_document"} \subseteq DOMAIN result.d
    /\ result.d.primary_source.b
    /\ result.d.recent_document.b

\* the same result with neither mark
Unflagged(result) ==
    PyDict([k \in DOMAIN result.d \ {"primary_source", "recent_document"} |->
               result.d[k]])

\* C9: a result that is a primary source and recent weighs in with
\* 1.2 * 1.1 times the base, which is strictly more than the same result
\* with neither mark weighs in with.
C9_FlaggedWeighsMore ==
    (/\ call.op = "apply_source_weights"
     /\ RLt(Zero, call.base_score)
     /\ Len(request.search_results) = 1
     /\ WellFormed(request.search_results[1])
     /\ FlaggedBoth(request.search_results[1])) =>
        LET plain == apply_source_weights(
                         call.base_score,
                         <<Unflagged(request.search_results[1])>>)
        IN  /\ ret.ok
            /\ ret.val = RMul(call.base_score, RMul(Rat(12, 10), Rat(11, 10)))
            /\ plain.ok
            /\ RLt(plain.val, ret.val)

\* C10: the key_points of the response of generate_response are non-empty
\* exactly when the results are non-empty.
C10_KeyPointsIffResults ==
    (call.op = "generate_response" /\ AllWellFormed(request.search_results)) =>
        /\ ret.ok
        /\ (ret.val.direct_answer.key_points # <<>>)
               <=> (request.search_results # <<>>)

-----------------------------------------------------------------------------
(* Shape of the response *)

ResponseFields ==
    {"direct_answer", "jurisdiction_specific", "cross_jurisdiction",
     "sources", "confidence"}

\* every stage returned, and the response holds what the stages returned
BuiltByStages(response, search_results) ==
    /\ ~StageFaults(search_results)
    /\ response.direct_answer = extract_main_answer(search_results).val
    /\ response.jurisdiction_specific =
           get_jurisdiction_requirements(search_results).val
    /\ response.cross_jurisdiction =
           get_comparative_analysis(search_results).val
    /\ response.sources = format_sources(search_results).val
    /\ response.confidence = calculate_confidence_score(search_results).val

\* the five fields hold the values generate_error_response gives them
AllDefaults(response) ==
    /\ response.direct_answer =
           [summary         |-> "Unable to generate response",
            key_points      |-> <<>>,
            relevance_score |-> Zero]
    /\ DOMAIN response.jurisdiction_specific = {}
    /\ DOMAIN response.cross_jurisdiction = {}
    /\ response.sources = <<>>
    /\ response.confidence = Zero

\* C11: a response generate_response returns has exactly the five fields
\* direct_answer, jurisdiction_specific, cross_jurisdiction, sources and
\* confidence, and either all five are what the stages produced or all five
\* hold the zero values: none mixes the two.
C11_NeverPartiallyPopulated ==
    call.op = "generate_response" =>
        /\ ret.ok
        /\ DOMAIN ret.val = ResponseFields
        /\ \/ BuiltByStages(ret.val, request.search_results)
           \/ AllDefaults(ret.val)

\* generate_response has returned for results of which format_sources
\* builds the sources, while another stage raises
C11_Witness ==
    /\ call.op = "generate_response"
    /\ request.search_results # <<>>
    /\ format_sources(request.search_results).ok
    /\ StageFaults(request.search_results)
    /\ ret.ok
    /\ AllDefaults(ret.val)

-----------------------------------------------------------------------------
(* Concurrent calls of generate_response on one generator.  A call is a    *)
(* sequence of steps of its thread: entering the try block, one step per   *)
(* stage of the dict display at lines 26-32, and the step that logs and    *)
(* returns, from the try block or from the handler.  Steps of different    *)
(* threads interleave in any order.  Every dict and list display builds a  *)
(* new object; objects are numbered in the order they are built.           *)

Threads == 1..NumThreads

\* the stages in the order the dict display evaluates them
StageOutcome(n, search_results) ==
    CASE n = 1 -> extract_main_answer(search_results)
      [] n = 2 -> get_jurisdiction_requirements(search_results)
      [] n = 3 -> get_comparative_analysis(search_results)
      [] n = 4 -> format_sources(search_results)
      [] n = 5 -> calculate_confidence_score(search_results)

\* the dicts and lists the displays of generate_error_response build
ErrorResponseParts ==
    <<"response", "direct_answer", "key_points", "jurisdiction_specific",
      "cross_jurisdiction", "sources">>

\* faulty variant: the error response is built once and handed to every call
generate_error_response_objects_cached(allocated) ==
    {i : i \in 1..Len(ErrorResponseParts)}

\* the objects of a response generate_error_response returns, when
\* `allocated` objects exist: each display builds a new one
generate_error_response_objects(allocated) ==
    {allocated + i : i \in 1..Len(ErrorResponseParts)}

\* the objects of a response the try block returns: those of the error
\* response's shape, and one dict per source
built_response_objects(allocated, search_results) ==
    {allocated + i :
        i \in 1..(Len(ErrorResponseParts) + Len(search_results))}

ConcurrentInputs == {<<>>, <<BrA>>, <<NotADict, BrA>>, <<JpA>>}

InitConcurrent ==
    /\ confidence_thresholds =
           [high |-> Rat(8, 10), medium |-> Rat(6, 10), low |-> Rat(4, 10)]
    /\ request = [kind |-> "concurrent"]
    /\ call = [op |-> "__init__"]
    /\ ret = Ok(PyNone)
    /\ log = ""
    /\ threads \in
           [Threads ->
               {[pc             |-> "idle",
                 query          |-> "q",
                 search_results |-> sr,
                 stage          |-> 0,
                 values         |-> <<>>,
                 exc            |-> "",
                 entered        |-> 0,
                 results        |-> <<>>] : sr \in ConcurrentInputs}]
    /\ next_id = 0

\* thread t calls generate_response and enters the try block; entered is
\* the number of objects that exist at that moment
Call(t) ==
    /\ threads[t].pc = "idle"
    /\ threads[t].results = <<>>
    /\ threads' = [threads EXCEPT ![t].pc = "try",
                                  ![t].stage = 1,
                                  ![t].values = <<>>,
                                  ![t].exc = "",
                                  ![t].entered = next_id]
    /\ UNCHANGED <<confidence_thresholds, request, call, ret, log, next_id>>

\* thread t evaluates the next value of the dict display
Stage(t) ==
    /\ threads[t].pc = "try"
    /\ LET outcome == StageOutcome(threads[t].stage, threads[t].search_results)
       IN  threads' =
               IF ~outcome.ok
               THEN [threads EXCEPT ![t].pc = "except",
                                    ![t].exc = outcome.exc]
               ELSE [threads EXCEPT
                        ![t].values = Append(@, outcome.val),
                        ![t].stage = @ + 1,
                        ![t].pc = IF threads[t].stage = 5 THEN "built"
                                  ELSE "try"]
    /\ UNCHANGED <<confidence_thresholds, request, call, ret, log, next_id>>

\* thread t logs and returns: the response of the try block, or from the
\* handler the response of generate_error_response
Finish(t) ==
    /\ threads[t].pc \in {"built", "except"}
    /\ threads[t].pc = "except" => threads[t].exc \in ExceptionSubclasses
    /\ LET built == threads[t].pc = "built"
           response ==
               IF built
               THEN [direct_answer         |-> threads[t].values[1],
                     jurisdiction_specific |-> threads[t].values[2],
                     cross_jurisdiction    |-> threads[t].values[3],
                     sources               |-> threads[t].values[4],
                     confidence            |-> threads[t].values[5]]
               ELSE generate_error_response
           objects ==
               IF built
               THEN built_response_objects(next_id, threads[t].search_results)
               ELSE generate_error_response_objects(next_id)
       IN  /\ threads' =
                  [threads EXCEPT
                      ![t].pc = "idle",
                      ![t].results =
                          Append(@, [val     |-> response,
                                     objects |-> objects,
                                     entered |-> threads[t].entered])]
           /\ next_id' = next_id + Cardinality(objects)
           /\ log' = IF built THEN "INFO" ELSE "ERROR"
    /\ UNCHANGED <<confidence_thresholds, request, call, ret>>

NextConcurrent ==
    \E t \in Threads :
        \/ Call(t)
        \/ Stage(t)
        \/ Finish(t)

SpecConcurrent == InitConcurrent /\ [][NextConcurrent]_vars

\* the calls that have returned: <<thread, number of the call>>
Returned ==
    UNION {{<<t, i>> : i \in 1..Len(threads[t].results)} : t \in Threads}

\* C12: concurrent calls of generate_response on one generator leave the
\* generator's confidence_thresholds and the input results as they were,
\* return responses that share no object with one another, and return to
\* each caller the response its call returns when it runs alone.
C12_ConcurrentCallsIndependent ==
    /\ [][/\ confidence_thresholds' = confidence_thresholds
          /\ \A t \in Threads :
                 /\ threads'[t].search_results = threads[t].search_results
                 /\ threads'[t].query = threads[t].query]_vars
    /\ [](\A c \in Returned :
            LET t == c[1]
                mine == threads[t].results[c[2]]
            IN  /\ mine.val =
                       generate_response(threads[t].query,
                                         threads[t].search_results).res.val
                /\ \A other \in Returned \ {c} :
                       mine.objects \cap
                           threads[other[1]].results[other[2]].objects = {})

\* two threads with different results have both returned, and the call of
\* thread 2 began before thread 1 built its response and ended after it
C12_Witness ==
    /\ request.kind = "concurrent"
    /\ \A t \in {1, 2} : Len(threads[t].results) = 1
    /\ threads[1].search_results # threads[2].search_results
    /\ \E o \in threads[1].results[1].objects :
           /\ threads[2].results[1].entered < o
           /\ \A mine \in threads[2].results[1].objects : o < mine

-----------------------------------------------------------------------------
(* The confidence as a weighted average, and the differences of the        *)
(* comparison                                                              *)

HasFlag(result, flag) ==
    flag \in DOMAIN result.d /\ result.d[flag].b

\* the product of the multipliers of the marks a result carries
Multiplier(result) ==
    RMul(IF HasFlag(result, "primary_source") THEN Rat(12, 10) ELSE One,
         IF HasFlag(result, "recent_document") THEN Rat(11, 10) ELSE One)

\* the sum of the scores, each multiplied by the multiplier of its result
RECURSIVE WeightedSum(_)
WeightedSum(search_results) ==
    IF search_results = <<>> THEN Zero
    ELSE RAdd(RMul(Head(search_results).d.score.f,
                   Multiplier(Head(search_results))),
              WeightedSum(Tail(search_results)))

Clamp01(q) == IF RLt(q, Zero) THEN Zero ELSE IF RLt(One, q) THEN One ELSE q

\* C13: for non-empty well-formed results calculate_confidence_score
\* returns the mean of the scores, each weighted by the multipliers of its
\* own result (1.2 primary source, 1.1 recent), clamped to [0, 1]; one
\* unmarked result of score 0.9 gives 0.9.
C13_ClampedWeightedAverage ==
    (/\ call.op = "calculate_confidence_score"
     /\ request.search_results # <<>>
     /\ AllWellFormed(request.search_results)) =>
        /\ ret.ok
        /\ ret.val = Clamp01(RDivInt(WeightedSum(request.search_results),
                                     Len(request.search_results)))

\* C14: for every jurisdiction j present, get_comparative_analysis returns
\* as differences[j] the items of j that are missing from some other
\* jurisdiction present, and with two or more jurisdictions present
\* unique_aspects[j] is a subset of differences[j].
C14_Differences ==
    (/\ call.op = "get_comparative_analysis"
     /\ AllWellFormed(request.search_results)) =>
        LET sr == request.search_results
            present == Present(sr)
        IN  /\ ret.ok
            /\ \A j \in present :
                   /\ ret.val.differences[j] =
                          {x \in Items(sr, j) :
                              \E k \in present \ {j} : x \notin Items(sr, k)}
                   /\ Cardinality(present) >= 2 =>
                          ret.val.unique_aspects[j]
                              \subseteq ret.val.differences[j]

-----------------------------------------------------------------------------
(* Properties of the trend report and of the conflict report *)

\* C15: generate_trend_report always returns, never raising, a report with
\* the fields summary (key_trends, emerging_areas, future_outlook),
\* detailed_analysis and recommendations, also when
\* analyze_regulatory_trends has fallen back to the empty dictionary.
C15_TrendReportAlwaysReturned ==
    call.op = "generate_trend_report" =>
        /\ ret.ok
        /\ DOMAIN ret.val =
               {"summary", "detailed_analysis", "recommendations"}
        /\ DOMAIN ret.val.summary =
               {"key_trends", "emerging_areas", "future_outlook"}

\* the conflicts of all types, in the order Python traverses them
RECURSIVE Flatten(_)
Flatten(conflicts) ==
    IF conflicts = <<>> THEN <<>>
    ELSE Head(conflicts).val \o Flatten(Tail(conflicts))

NoFinderRaises(self) == \A k \in DOMAIN self : self[k].ok

\* C16: in the report of generate_conflict_report, total_conflicts is the
\* number of conflict records over the four conflict types and equals
\* high_impact + medium_impact + low_impact, for the built-in tables, and
\* when analyze_conflicts falls back to {} all four counts are 0.
C16_TotalIsSumOfImpacts ==
    call.op = "generate_conflict_report" =>
        LET summary == ret.val.summary
        IN  /\ ret.ok
            /\ summary.total_conflicts = Len(Flatten(ret.val.conflicts))
            /\ summary.total_conflicts =
                   summary.high_impact + summary.medium_impact
                   + summary.low_impact
            /\ NoFinderRaises(request.self) =>
                   summary.total_conflicts =
                       Len(find_requirement_conflicts)
                       + Len(find_definition_conflicts)
                       + Len(find_procedure_conflicts)
                       + Len(find_timeline_conflicts)
            /\ ~NoFinderRaises(request.self) =>
                   /\ ret.val.conflicts = <<>>
                   /\ summary = [total_conflicts |-> 0, high_impact |-> 0,
                                 medium_impact |-> 0, low_impact |-> 0]

\* the report over the built-in tables: five conflicts, three of them high
C16_Witness ==
    /\ call.op = "generate_conflict_report"
    /\ NoFinderRaises(request.self)
    /\ ret.val.summary = [total_conflicts |-> 5, high_impact |-> 3,
                          medium_impact |-> 2, low_impact |-> 0]

IsHigh(conflict) ==
    "impact" \in DOMAIN conflict /\ conflict.impact = "High"

\* recommendations answers the high-impact conflicts of conflicts one for
\* one, in traversal order, each with the resolution of its own conflict
OnePerHighConflict(recommendations, conflicts) ==
    LET high == SelectSeq(Flatten(conflicts), IsHigh)
    IN  /\ Len(recommendations) = Len(high)
        /\ \A i \in 1..Len(high) :
               /\ recommendations[i].priority = "High"
               /\ recommendations[i].recommendation =
                      IF "resolution" \in DOMAIN high[i]
                      THEN high[i].resolution ELSE ""

\* C17: generate_recommendations emits exactly one recommendation per
\* conflict of impact 'High' and none for any other, in traversal order
\* (type by type, then list order), each carrying the resolution of its own
\* conflict; so a conflict report has summary.high_impact recommendations.
C17_OneRecommendationPerHighConflict ==
    /\ call.op = "generate_recommendations" =>
           /\ ret.ok
           /\ OnePerHighConflict(ret.val, request.conflicts)
    /\ call.op = "generate_conflict_report" =>
           /\ OnePerHighConflict(ret.val.recommendations, ret.val.conflicts)
           /\ Len(ret.val.recommendations) = ret.val.summary.high_impact

\* two high-impact conflicts under different types, with another conflict
\* between them, answered in that order
C17_Witness ==
    /\ call.op = "generate_recommendations"
    /\ request.conflicts =
           <<[key |-> "requirements", val |-> <<HighA, MediumA>>],
             [key |-> "definitions", val |-> <<HighBare>>]>>
    /\ Len(ret.val) = 2
    /\ ret.val[1].recommendation = HighA.resolution
    /\ ret.val[2].recommendation = ""

-----------------------------------------------------------------------------
(* format_excerpt applied twice *)

Min(a, b) == IF a <= b THEN a ELSE b

\* the excerpt just returned is left as it is by a second call with the
\* same limit, is at most three characters longer than the limit, and
\* begins as the content does; no content gives the empty excerpt
ExcerptLawsHold ==
    LET content == request.content
        max_length == call.max_length
        c == IF content.t = "str" THEN content.s ELSE <<>>
        kept == Min(Len(c), max_length)
    IN  /\ ret.ok
        /\ format_excerpt(PyStr(ret.val), max_length) = ret
        /\ Len(ret.val) <= max_length + 3
        /\ \A i \in 1..kept : ret.val[i] = c[i]
        /\ Len(ret.val) >= kept
        /\ c = <<>> => ret.val = <<>>

\* C18 as stated: for every limit and every content that is a string or
\* missing, format_excerpt is idempotent, returns at most max_length + 3
\* characters that begin with the first min(len(c), max_length) characters
\* of c, and returns '' for empty or missing content.
C18_IdempotentPrefixPreserving ==
    (/\ call.op = "format_excerpt"
     /\ request.content.t \in {"str", "NoneType"}) => ExcerptLawsHold

\* C18, amended: the same for every limit max_length >= 0.
C18_IdempotentForNonNegativeLimit ==
    (/\ call.op = "format_excerpt"
     /\ request.content.t \in {"str", "NoneType"}
     /\ call.max_length >= 0) => ExcerptLawsHold

\* content longer than the limit has been cut to the limit and marked
C18_Witness ==
    /\ call.op = "format_excerpt"
    /\ request.content.t = "str"
    /\ call.max_length >= 1
    /\ Len(request.content.s) > call.max_length
    /\ ret.ok
    /\ ret.val = SubSeq(request.content.s, 1, call.max_length) \o Ellipsis

====
